---------------------------- MODULE Spec2Model ----------------------------
(***************************************************************************)
(* Model of src/utils/silo_finance.py: SiloFinance.get_block_balances and  *)
(* the helpers it drives (find_closest_cached_data, fetch_supply_index,    *)
(* fetch_transfers, process_transfer_event, add_to_bals,                   *)
(* subtract_from_bals).                                                    *)
(*                                                                         *)
(* Python dicts are objects with identity: the model keeps a heap of       *)
(* balance dicts (snaps) and a heap of block-keyed dicts (dicts); program  *)
(* variables hold references (indices) into them, so that aliasing and     *)
(* deepcopy are distinguishable.                                           *)
(*                                                                         *)
(* Amounts: Python floats are modelled as exact rationals.  A raw event    *)
(* value v stands for v * 10^11 share-wei, so value / 10^18 is v units of  *)
(* 10^-7; balances are kept in the same 10^-7 unit, one digit finer than   *)
(* ROUND_DECIMALS, so that round(x, 6) is a real operation.                *)
(***************************************************************************)
EXTENDS Integers, Sequences, FiniteSets, TLC

VARIABLES
    \* ---- get_block_balances: heap, arguments, locals, chain, observations
    snaps,          \* heap of Dict[ChecksumAddress, float] objects, by object id
    dicts,          \* heap of Dict[int, <snapshot ref>] objects, by object id
    cached_data,    \* the caller's cache: a reference into dicts
    blocks,         \* the blocks argument of the current (or last) call
    nb_log,         \* chain: Transfer logs of the non-borrowable token
    b_log,          \* chain: Transfer logs of the borrowable (market) token
    pc,             \* "idle" | "loop" (line 50) | "page" (line 63)
    cache_copy,     \* reference into dicts (0: unbound)
    new_block_data, \* the result dict: block -> snapshot ref
    todo,           \* the part of sorted(blocks) the for loop has not reached
    block,          \* loop variable of line 50
    prev_block,     \* line 52 / 56
    start,          \* line 53 / 60 / 75
    bals,           \* reference into snaps (0: unbound)
    supply_index,   \* <<numerator, denominator>> of the float of line 61
    pages,          \* <<from_block, to_block>> of every fetch_transfers call for block
    rpc,            \* collaborator calls made by the current (or last) call
    results,        \* what the caller got back from each finished call
    \* ---- process_transfer_event applied to one balance dict
    l_bals,         \* the bals dict
    l_index,        \* the supply_index argument, <<numerator, denominator>>
    l_transfer,     \* the last transfer event applied (l_n > 0)
    l_n,            \* number of events applied
    l_empty,        \* whether l_bals was empty before the first event
    l_minted,       \* sum of the asset amounts of the mint events so far
    l_burned,       \* sum of the asset amounts of the burn events so far
    l_covered       \* every sender so far held what it burned or sent

call_vars == <<snaps, dicts, cached_data, blocks, nb_log, b_log, pc, cache_copy,
               new_block_data, todo, block, prev_block, start, bals, supply_index,
               pages, rpc, results>>

ledger_vars == <<l_bals, l_index, l_transfer, l_n, l_empty, l_minted, l_burned,
                 l_covered>>

vars == <<call_vars, ledger_vars>>

-----------------------------------------------------------------------------
(* Bounds of the model *)

MaxBlock == 3
MaxTargets == 2
MaxEvents == 3

(* Program constants *)

\* constants.silo_finance.PAGINATION_SIZE, scaled down so that a gap spans
\* several pages within MaxBlock
PAGINATION_SIZE == 1

\* self.start_block of the integration
start_block == 1

ROUND_DECIMALS == 6

\* 10 ** market.shares_decimals, the probe amount of convertToAssets (scaled down)
ProbeShares == 10

NULL_ADDRESS == "0x0000000000000000000000000000000000000000"

Holders == {"0xA", "0xB"}

Addresses == Holders \cup {NULL_ADDRESS}

Blocks == 0..MaxBlock

\* raw Transfer values, in units of 10^11 share-wei: 0.5 and 1.5 millionths of a
\* share (rounding ties) and 5 * 10^17 wei
Values == {5, 15, 5000000}

\* convertToAssets(ProbeShares) answers giving supply_index 1.0, 1.5 and 2.0
Indexes == {<<10, ProbeShares>>, <<15, ProbeShares>>, <<20, ProbeShares>>}

-----------------------------------------------------------------------------
(* Python values *)

EmptyDict == [k \in {} |-> 0]

DictSet(d, k, v) == [x \in DOMAIN d \cup {k} |-> IF x = k THEN v ELSE d[x]]

Min(a, b) == IF a <= b THEN a ELSE b

RECURSIVE SumOver(_, _)
SumOver(d, keys) ==
    IF keys = {} THEN 0
    ELSE LET k == CHOOSE x \in keys : TRUE
         IN  d[k] + SumOver(d, keys \ {k})

SumBals(d) == SumOver(d, DOMAIN d)

RECURSIVE Insert(_, _)
Insert(x, s) ==
    IF s = <<>> THEN <<x>>
    ELSE IF x <= Head(s) THEN <<x>> \o s
    ELSE <<Head(s)>> \o Insert(x, Tail(s))

\* sorted(seq): ascending, duplicates kept
RECURSIVE Sorted(_)
Sorted(s) == IF s = <<>> THEN <<>> ELSE Insert(Head(s), Sorted(Tail(s)))

RECURSIVE Reversed(_)
Reversed(s) == IF s = <<>> THEN <<>> ELSE Append(Reversed(Tail(s)), Head(s))

RECURSIVE SetToSeq(_)
SetToSeq(S) ==
    IF S = {} THEN <<>>
    ELSE LET x == CHOOSE y \in S : TRUE
         IN  <<x>> \o SetToSeq(S \ {x})

\* sorted(d): the keys of a dict, ascending
SortedKeys(d) == Sorted(SetToSeq(DOMAIN d))

\* round-half-to-even of n / d to an integer (d > 0), as Python's round()
RoundHalfEven(n, d) ==
    LET q == n \div d
        r == n % d
    IN  IF 2 * r < d THEN q
        ELSE IF 2 * r > d THEN q + 1
        ELSE IF q % 2 = 0 THEN q ELSE q + 1

\* round(x, ROUND_DECIMALS) of x = n / d units of 10^-7, in units of 10^-7
Round(n, d) ==
    LET scale == 10 ^ (7 - ROUND_DECIMALS)
    IN  scale * RoundHalfEven(n, d * scale)


-----------------------------------------------------------------------------
(* Balance accumulation: lines 132-200 *)

is_null_address(address) == address = NULL_ADDRESS

Held(d, address) == IF address \in DOMAIN d THEN d[address] ELSE 0

\* value / 10 ** decimals for value = <<n, d>> raw units (10^11 share-wei each),
\* as <<numerator, denominator>> in units of 10^-7
Scaled(value, decimals) == <<value[1] * 10 ^ (18 - decimals), value[2]>>

add_to_bals(d, address, value, decimals) ==
    LET d0 == IF address \notin DOMAIN d THEN DictSet(d, address, 0) ELSE d
        q  == Scaled(value, decimals)
        d1 == DictSet(d0, address, d0[address] + Round(q[1], q[2]))
    IN  DictSet(d1, address, Round(d1[address], 1))

\* subtract_from_bals without the clamp of lines 198-199
subtract_from_bals_unclamped(d, address, value, decimals) ==
    LET d0 == IF address \notin DOMAIN d THEN DictSet(d, address, 0) ELSE d
        q  == Scaled(value, decimals)
        d1 == DictSet(d0, address, d0[address] - Round(q[1], q[2]))
    IN  DictSet(d1, address, Round(d1[address], 1))

subtract_from_bals(d, address, value, decimals) ==
    LET d0 == IF address \notin DOMAIN d THEN DictSet(d, address, 0) ELSE d
        q  == Scaled(value, decimals)
        d1 == DictSet(d0, address, d0[address] - Round(q[1], q[2]))
        d2 == IF d1[address] < 0 THEN DictSet(d1, address, 0) ELSE d1
    IN  DictSet(d2, address, Round(d2[address], 1))

\* value * supply_index, as <<numerator, denominator>>
Assets(value, index) == <<value * index[1], index[2]>>

process_transfer_event(transfer, d, index) ==
    LET sender   == transfer.from
        receiver == transfer.to
        value    == transfer.value
    IN  IF is_null_address(sender)
        THEN add_to_bals(d, receiver, Assets(value, index), 18)
        ELSE IF is_null_address(receiver)
        THEN subtract_from_bals(d, sender, Assets(value, index), 18)
        ELSE subtract_from_bals(
                 add_to_bals(d, sender, Assets(value, index), 18),
                 receiver, Assets(value, index), 18)

\* the loop of lines 69-74 over the events one fetch_transfers call yields
RECURSIVE ProcessAll(_, _, _)
ProcessAll(events, d, index) ==
    IF events = <<>> THEN d
    ELSE ProcessAll(Tail(events), process_transfer_event(Head(events), d, index), index)

\* the asset amount an event stands for: round(value * supply_index / 10^18, 6)
Amount(transfer, index) == Round(transfer.value * index[1], index[2])

Transfers == [from : Addresses, to : Addresses, value : Values]

NoTransfer == [from |-> NULL_ADDRESS, to |-> NULL_ADDRESS, value |-> 0]

\* balance dicts a caller's cache may hold (amounts in units of 10^-7)
Snapshots == {"0xA" :> 10000000, ("0xA" :> 20) @@ ("0xB" :> 10)}

-----------------------------------------------------------------------------
(* The chain collaborators: lines 95-130 *)

\* what convertToAssets(ProbeShares) answers at a block: 1.5, 2.0, 1.0, ...
ConvertToAssets(b) == ProbeShares + 5 * (b % 3)

fetch_supply_index(b) == <<ConvertToAssets(b), ProbeShares>>

\* fetch_events_logs_with_retry: the logs of from_block..to_block, in log order
RECURSIVE LogsBetween(_, _, _)
LogsBetween(log, from_block, to_block) ==
    IF log = <<>> THEN <<>>
    ELSE IF from_block <= Head(log).block /\ Head(log).block <= to_block
    THEN <<Head(log).event>> \o LogsBetween(Tail(log), from_block, to_block)
    ELSE LogsBetween(Tail(log), from_block, to_block)

\* the non-borrowable token's events first, then the borrowable token's
fetch_transfers(nb, b, from_block, to_block) ==
    LogsBetween(nb, from_block, to_block) \o LogsBetween(b, from_block, to_block)

\* chains the model draws from: at most one log of the borrowable token, a mint
\* of 5 * 10^17 wei to 0xA, and at most one log of the non-borrowable token, a
\* transfer from 0xA to 0xB, each at any block (0: no such log)
ChainShapes == [{"mint", "move"} -> 0..MaxBlock]

MintEvent == [from |-> NULL_ADDRESS, to |-> "0xA", value |-> 5000000]

MoveEvent == [from |-> "0xA", to |-> "0xB", value |-> 15]

LogOf(shape, kind, event) ==
    IF shape[kind] = 0 THEN <<>> ELSE <<[block |-> shape[kind], event |-> event]>>

-----------------------------------------------------------------------------
(* Objects: deepcopy and the cache lookup, lines 49 and 83-93 *)

\* the balance dicts a block-keyed dict refers to, by value
Content(d, heap) == [b \in DOMAIN d |-> heap[d[b]]]

Refs(d) == {d[b] : b \in DOMAIN d}

RECURSIVE CopyEntries(_, _, _, _)
CopyEntries(heap, d, keys, acc) ==
    IF keys = <<>> THEN [snaps |-> heap, dict |-> acc]
    ELSE CopyEntries(Append(heap, heap[d[Head(keys)]]), d, Tail(keys),
                     DictSet(acc, Head(keys), Len(heap) + 1))

\* cache_copy = cached_data: the same object under a second name
deepcopy_aliased(heap, outer, ref) == [snaps |-> heap, dicts |-> outer, ref |-> ref]

\* deepcopy(cached_data): a new block-keyed dict of new balance dicts
deepcopy(heap, outer, ref) ==
    LET c == CopyEntries(heap, outer[ref], SortedKeys(outer[ref]), EmptyDict)
    IN  [snaps |-> c.snaps, dicts |-> Append(outer, c.dict), ref |-> Len(outer) + 1]

None == [is_none |-> TRUE]

RECURSIVE FirstBelow(_, _)
FirstBelow(existing_blocks, target) ==
    IF existing_blocks = <<>> THEN None
    ELSE IF Head(existing_blocks) < target
    THEN [is_none |-> FALSE, block |-> Head(existing_blocks)]
    ELSE FirstBelow(Tail(existing_blocks), target)

\* find_closest_cached_data returning cached_data[existing_block] itself
find_closest_cached_data_aliased(target, heap, d) ==
    LET hit == FirstBelow(Reversed(SortedKeys(d)), target)
    IN  IF hit.is_none THEN None
        ELSE [is_none |-> FALSE, block |-> hit.block,
              snaps |-> heap, ref |-> d[hit.block]]

find_closest_cached_data(target, heap, d) ==
    LET hit == FirstBelow(Reversed(SortedKeys(d)), target)
    IN  IF hit.is_none THEN None
        ELSE [is_none |-> FALSE, block |-> hit.block,
              snaps |-> Append(heap, heap[d[hit.block]]), ref |-> Len(heap) + 1]

-----------------------------------------------------------------------------
(* get_block_balances: lines 38-81 *)

\* new_block_data seeded with the cache's entries
new_block_data_from_cache(d) == d

\* line 44: new_block_data = {}
new_block_data_init(d) == EmptyDict

\* for block in blocks, in the order given
unsorted_blocks(bl) == bl

\* line 50: sorted(blocks)
sorted_blocks(bl) == Sorted(bl)

\* a page ending PAGINATION_SIZE blocks on, whatever the target
to_block_unbounded(from_block, target) == from_block + PAGINATION_SIZE

\* line 64: to_block = min(start + PAGINATION_SIZE, block)
to_block_of(from_block, target) == Min(from_block + PAGINATION_SIZE, target)

Outcome(status, bl, d, heap, calls) ==
    [status |-> status, blocks |-> bl, data |-> Content(d, heap), rpc |-> calls]

NoCalls == [supply_index |-> 0, transfers |-> 0]

BlockLists == UNION {[1..n -> Blocks] : n \in 0..MaxTargets}

SameBag(s, t) ==
    \A x \in Blocks :
        Cardinality({i \in DOMAIN s : s[i] = x}) = Cardinality({i \in DOMAIN t : t[i] = x})

Reorderings(s) == {t \in [DOMAIN s -> Blocks] : SameBag(s, t)}

\* caches a caller may pass: any set of blocks, every block with a balance dict
\* of its own holding the same balances
Caches == UNION {[S -> {snapshot}] : S \in SUBSET Blocks, snapshot \in Snapshots}

\* the caches the repeated call is tried on: empty, or one block
SmallCaches ==
    {cache \in Caches :
        /\ Cardinality(DOMAIN cache) <= 1
        /\ \A b \in DOMAIN cache : cache[b] = ("0xA" :> 10000000)}

CallIdle ==
    /\ snaps = <<>>
    /\ dicts = <<EmptyDict>>
    /\ cached_data = 1
    /\ blocks = <<>>
    /\ nb_log = <<>>
    /\ b_log = <<>>
    /\ pc = "idle"
    /\ cache_copy = 0
    /\ new_block_data = EmptyDict
    /\ todo = <<>>
    /\ block = 0
    /\ prev_block = 0
    /\ start = 0
    /\ bals = 0
    /\ supply_index = <<0, ProbeShares>>
    /\ pages = <<>>
    /\ rpc = NoCalls
    /\ results = <<>>

LedgerIdle ==
    /\ l_bals = EmptyDict
    /\ l_index = <<0, ProbeShares>>
    /\ l_transfer = NoTransfer
    /\ l_n = 0
    /\ l_empty = TRUE
    /\ l_minted = 0
    /\ l_burned = 0
    /\ l_covered = TRUE

InitWith(caches) ==
    /\ LedgerIdle
    /\ \E cache \in caches :
           LET keys == SortedKeys(cache)
           IN  /\ snaps = [i \in 1..Len(keys) |-> cache[keys[i]]]
               /\ dicts = <<[b \in DOMAIN cache |->
                               CHOOSE i \in 1..Len(keys) : keys[i] = b]>>
    /\ cached_data = 1
    /\ \E shape \in ChainShapes :
           /\ b_log = LogOf(shape, "mint", MintEvent)
           /\ nb_log = LogOf(shape, "move", MoveEvent)
    /\ blocks = <<>>
    /\ pc = "idle"
    /\ cache_copy = 0
    /\ new_block_data = EmptyDict
    /\ todo = <<>>
    /\ block = 0
    /\ prev_block = 0
    /\ start = 0
    /\ bals = 0
    /\ supply_index = <<0, ProbeShares>>
    /\ pages = <<>>
    /\ rpc = NoCalls
    /\ results = <<>>

Init == InitWith(Caches)

\* lines 41-49 for the argument bl: the call, up to the for loop
Enter(bl) ==
    LET fresh == new_block_data_init(dicts[cached_data])
        copy  == deepcopy(snaps, dicts, cached_data)
    IN  /\ blocks' = bl
        /\ new_block_data' = fresh
        /\ rpc' = NoCalls
        /\ IF bl = <<>>
           THEN /\ results' = Append(results,
                                     Outcome("returned", bl, fresh, snaps, NoCalls))
                /\ UNCHANGED <<snaps, dicts, cache_copy, todo, pc>>
           ELSE /\ snaps' = copy.snaps
                /\ dicts' = copy.dicts
                /\ cache_copy' = copy.ref
                /\ todo' = sorted_blocks(bl)
                /\ pc' = "loop"
                /\ UNCHANGED results
        /\ UNCHANGED <<cached_data, nb_log, b_log, block, prev_block, start, bals,
                       supply_index, pages>>
        /\ UNCHANGED ledger_vars

\* the caller calls get_block_balances(cached_data, blocks)
Call ==
    /\ pc = "idle"
    /\ results = <<>>
    /\ \E bl \in BlockLists : Enter(bl)

\* the caller calls again with the same cached_data and the same targets, in
\* any order
CallAgain ==
    /\ pc = "idle"
    /\ Len(results) = 1
    /\ \E bl \in Reorderings(blocks) : Enter(bl)

\* lines 50-62: the next target, its starting point and its supply index.
\* Unpacking the None of find_closest_cached_data raises TypeError, which ends
\* the call.
BeginBlock ==
    /\ pc = "loop"
    /\ todo # <<>>
    /\ block' = Head(todo)
    /\ todo' = Tail(todo)
    /\ LET found == find_closest_cached_data(Head(todo), snaps, dicts[cache_copy])
       IN  IF dicts[cache_copy] = EmptyDict
           THEN /\ prev_block' = start_block
                /\ start' = start_block
                /\ snaps' = Append(snaps, EmptyDict)
                /\ bals' = Len(snaps) + 1
                /\ supply_index' = fetch_supply_index(Head(todo))
                /\ rpc' = [rpc EXCEPT !.supply_index = @ + 1]
                /\ pages' = <<>>
                /\ pc' = "page"
                /\ UNCHANGED results
           ELSE IF found.is_none
           THEN /\ results' = Append(results,
                                     Outcome("raised", blocks, EmptyDict, snaps, rpc))
                /\ pc' = "idle"
                /\ UNCHANGED <<prev_block, start, snaps, bals, supply_index, rpc, pages>>
           ELSE /\ prev_block' = found.block
                /\ start' = found.block + 1
                /\ snaps' = found.snaps
                /\ bals' = found.ref
                /\ supply_index' = fetch_supply_index(Head(todo))
                /\ rpc' = [rpc EXCEPT !.supply_index = @ + 1]
                /\ pages' = <<>>
                /\ pc' = "page"
                /\ UNCHANGED results
    /\ UNCHANGED <<dicts, cached_data, blocks, nb_log, b_log, cache_copy, new_block_data>>
    /\ UNCHANGED ledger_vars

\* lines 63-78: one turn of the paging loop
FetchPage ==
    /\ pc = "page"
    /\ start <= block
    /\ LET to_block == to_block_of(start, block)
       IN  /\ snaps' = [snaps EXCEPT ![bals] =
                           ProcessAll(fetch_transfers(nb_log, b_log, start, to_block),
                                      @, supply_index)]
           /\ pages' = Append(pages, <<start, to_block>>)
           /\ start' = to_block + 1
    /\ rpc' = [rpc EXCEPT !.transfers = @ + 1]
    /\ UNCHANGED <<dicts, cached_data, blocks, nb_log, b_log, pc, cache_copy,
                   new_block_data, todo, block, prev_block, bals, supply_index, results>>
    /\ UNCHANGED ledger_vars

\* lines 79-80: the snapshot goes into the result and into the working cache
Record ==
    /\ pc = "page"
    /\ start > block
    /\ new_block_data' = DictSet(new_block_data, block, bals)
    /\ dicts' = [dicts EXCEPT ![cache_copy] = DictSet(@, block, bals)]
    /\ pc' = "loop"
    /\ UNCHANGED <<snaps, cached_data, blocks, nb_log, b_log, cache_copy, todo, block,
                   prev_block, start, bals, supply_index, pages, rpc, results>>
    /\ UNCHANGED ledger_vars

\* line 81
Return ==
    /\ pc = "loop"
    /\ todo = <<>>
    /\ results' = Append(results, Outcome("returned", blocks, new_block_data, snaps, rpc))
    /\ pc' = "idle"
    /\ UNCHANGED <<snaps, dicts, cached_data, blocks, nb_log, b_log, cache_copy,
                   new_block_data, todo, block, prev_block, start, bals, supply_index,
                   pages, rpc>>
    /\ UNCHANGED ledger_vars

Next == Call \/ BeginBlock \/ FetchPage \/ Record \/ Return

Spec == Init /\ [][Next]_vars

RepeatInit == InitWith(SmallCaches)

RepeatNext == Call \/ CallAgain \/ BeginBlock \/ FetchPage \/ Record \/ Return

RepeatSpec == RepeatInit /\ [][RepeatNext]_vars

-----------------------------------------------------------------------------
(* Properties of get_block_balances *)

\* the blocks of a block-keyed dict strictly below a target
PriorBlocks(target, d) == {b \in DOMAIN d : b < target}

Nearest(target, d) ==
    CHOOSE b \in PriorBlocks(target, d) : \A c \in PriorBlocks(target, d) : c <= b

\* where the gap of a target begins
StartPoint(target, d) ==
    IF PriorBlocks(target, d) = {} THEN start_block ELSE Nearest(target, d) + 1

\* the for loop has just resolved the starting point of block
Began == pc = "page" /\ pages = <<>>

\* the for loop has just recorded the snapshot of block
Recorded == pc = "loop" /\ new_block_data # EmptyDict

\* C2: a target with no cached block strictly below it is processed from
\* start_block with empty balances, and the call returns a snapshot for every
\* target instead of raising
C2_NoPriorStartsFromStartBlock ==
    /\ \A i \in DOMAIN results :
           /\ results[i].status = "returned"
           /\ \A k \in DOMAIN results[i].blocks :
                  results[i].blocks[k] \in DOMAIN results[i].data
    /\ (Began /\ PriorBlocks(block, dicts[cache_copy]) = {})
           => (start = start_block /\ snaps[bals] = EmptyDict)

\* C7: a call with an empty blocks list returns an empty map, without raising
\* and without any supply-index query or transfer fetch
C7_EmptyBlocksReturnsEmpty ==
    \A i \in DOMAIN results :
        results[i].blocks = <<>>
        => /\ results[i].status = "returned"
           /\ results[i].data = EmptyDict
           /\ results[i].rpc = NoCalls

\* an empty blocks list was answered while the cache held snapshots
C7_Witness ==
    /\ results # <<>>
    /\ results[1].blocks = <<>>
    /\ dicts[cached_data] # EmptyDict
    /\ pc = "idle"

\* C8: every page from_block..to_block (both inclusive) holds at most
\* PAGINATION_SIZE blocks
C8_PageWithinPaginationSize ==
    \A i \in DOMAIN pages : pages[i][2] - pages[i][1] + 1 <= PAGINATION_SIZE

\* C9: the pages fetched for a target are non-empty, contiguous and ascending,
\* begin at the starting point, never pass the target, and once the paging
\* loop is left they end at the target (no page at all when the starting
\* point is above the target); start moves up with every page and stays
\* within one block of the target, so the loop ends
C9_PagesPartitionTheGap ==
    (pc = "page" \/ Recorded)
    => LET first == StartPoint(block, dicts[cache_copy])
       IN  /\ \A i \in DOMAIN pages :
                  /\ pages[i][1] = (IF i = 1 THEN first ELSE pages[i - 1][2] + 1)
                  /\ pages[i][1] <= pages[i][2]
                  /\ pages[i][2] <= block
           /\ start = (IF pages = <<>> THEN first ELSE pages[Len(pages)][2] + 1)
           /\ pages # <<>> => start <= block + 1
           /\ Recorded
                  => (IF first > block
                      THEN pages = <<>>
                      ELSE pages # <<>> /\ pages[Len(pages)][2] = block)

\* a gap that begins after a cached block was covered in two pages
C9_Witness ==
    /\ Recorded
    /\ PriorBlocks(block, dicts[cache_copy]) # {}
    /\ Len(pages) = 2
    /\ pages[2][2] = block

\* C10: a target with an earlier cached or processed block starts one block
\* after the largest such block, from a copy of its snapshot that no cache or
\* result refers to; its pages stay within the gap, its snapshot is recorded
\* in the result and in the working cache, and no step changes a snapshot the
\* result already holds
C10_LaterTargetsBuildOnPrivateCopies ==
    /\ []((Began /\ PriorBlocks(block, dicts[cache_copy]) # {})
            => /\ prev_block = Nearest(block, dicts[cache_copy])
               /\ start = prev_block + 1
               /\ snaps[bals] = snaps[dicts[cache_copy][prev_block]]
               /\ bals \notin Refs(dicts[cache_copy]) \cup Refs(new_block_data)
                                \cup Refs(dicts[cached_data]))
    /\ []((pc = "page" /\ PriorBlocks(block, dicts[cache_copy]) # {})
            => \A i \in DOMAIN pages :
                   prev_block + 1 <= pages[i][1] /\ pages[i][2] <= block)
    /\ [](Recorded
            => /\ new_block_data[block] = bals
               /\ dicts[cache_copy][block] = bals)
    /\ [][\A b \in DOMAIN new_block_data \cap DOMAIN new_block_data' :
              snaps'[new_block_data'[b]] = snaps[new_block_data[b]]]_vars

\* a second target was built on the snapshot the same call recorded for an
\* earlier target, and ended with other balances
C10_Witness ==
    /\ Recorded
    /\ prev_block \in DOMAIN new_block_data
    /\ prev_block < block
    /\ prev_block = Nearest(block, dicts[cache_copy])
    /\ snaps[new_block_data[prev_block]] # snaps[new_block_data[block]]

-----------------------------------------------------------------------------
(* Properties of a call and its repetition *)

\* C3: no step changes the blocks or the snapshots of the caller's
\* cached_data, and a second call with the same blocks list ends as the first
C3_CachedDataNeverMutated ==
    /\ [][Content(dicts[cached_data], snaps)' = Content(dicts[cached_data], snaps)]_vars
    /\ [](\A i, j \in DOMAIN results :
              results[i].blocks = results[j].blocks
              => /\ results[i].status = results[j].status
                 /\ results[i].data = results[j].data)

\* two calls with the same non-empty cache and the same blocks both returned
\* snapshots
C3_Witness ==
    /\ Len(results) = 2
    /\ results[1].blocks = results[2].blocks
    /\ results[2].status = "returned"
    /\ results[2].data # EmptyDict
    /\ dicts[cached_data] # EmptyDict

\* C4: calls whose blocks lists hold the same targets in different orders end
\* the same way, with the same map from block to snapshot
C4_OrderOfBlocksIrrelevant ==
    \A i, j \in DOMAIN results :
        /\ results[i].status = results[j].status
        /\ results[i].data = results[j].data

\* two calls with the targets in different orders both returned two snapshots
C4_Witness ==
    /\ Len(results) = 2
    /\ results[1].blocks # results[2].blocks
    /\ results[2].status = "returned"
    /\ Cardinality(DOMAIN results[2].data) = 2
    /\ results[2].blocks[1] > results[2].blocks[2]

-----------------------------------------------------------------------------
(* process_transfer_event applied, event after event, to one balance dict at *)
(* one supply_index: what the loop of lines 69-74 does to bals               *)

LedgerInit ==
    /\ CallIdle
    /\ l_bals \in {EmptyDict} \cup Snapshots
    /\ l_index \in Indexes
    /\ l_transfer = NoTransfer
    /\ l_n = 0
    /\ l_empty = (l_bals = EmptyDict)
    /\ l_minted = 0
    /\ l_burned = 0
    /\ l_covered = TRUE

LedgerApply ==
    /\ l_n < MaxEvents
    /\ \E transfer \in Transfers :
           LET amount == Amount(transfer, l_index)
               mint   == is_null_address(transfer.from)
               burn   == ~mint /\ is_null_address(transfer.to)
           IN  /\ l_bals' = process_transfer_event(transfer, l_bals, l_index)
               /\ l_transfer' = transfer
               /\ l_minted' = l_minted + (IF mint THEN amount ELSE 0)
               /\ l_burned' = l_burned + (IF burn THEN amount ELSE 0)
               /\ l_covered' = (l_covered /\ (mint \/ Held(l_bals, transfer.from) >= amount))
    /\ l_n' = l_n + 1
    /\ UNCHANGED <<l_index, l_empty>>
    /\ UNCHANGED call_vars

LedgerNext == LedgerApply

LedgerSpec == LedgerInit /\ [][LedgerNext]_vars

\* the step just taken applied a transfer between two distinct holders
MovedBetweenHolders ==
    /\ l_n' = l_n + 1
    /\ ~is_null_address(l_transfer'.from)
    /\ ~is_null_address(l_transfer'.to)
    /\ l_transfer'.from # l_transfer'.to

\* C1: a transfer event with non-null sender and receiver takes
\* value * supply_index / 10^18 from the sender's balance and adds it to the
\* receiver's (the sender holding at least that amount)
C1_TransferDebitsSenderCreditsReceiver ==
    [][ (MovedBetweenHolders
         /\ Held(l_bals, l_transfer'.from) >= Amount(l_transfer', l_index))
        => /\ Held(l_bals', l_transfer'.from)
                = Held(l_bals, l_transfer'.from) - Amount(l_transfer', l_index)
           /\ Held(l_bals', l_transfer'.to)
                = Held(l_bals, l_transfer'.to) + Amount(l_transfer', l_index) ]_vars

\* C5: every balance is >= 0 after any sequence of events, and a balance that
\* goes down goes down by the event's amount, stopping at exactly 0
C5_BalancesNeverNegative ==
    /\ [](\A a \in DOMAIN l_bals : l_bals[a] >= 0)
    /\ [][ \A a \in Addresses :
              Held(l_bals', a) < Held(l_bals, a)
              => Held(l_bals', a)
                   = (IF Held(l_bals, a) - Amount(l_transfer', l_index) < 0
                      THEN 0
                      ELSE Held(l_bals, a) - Amount(l_transfer', l_index)) ]_vars

\* from a cached snapshot, a burn of more than the holder has left the holder
\* at exactly 0
C5_Witness ==
    /\ l_n = 1
    /\ ~l_empty
    /\ ~is_null_address(l_transfer.from)
    /\ is_null_address(l_transfer.to)
    /\ Amount(l_transfer, l_index) > 0
    /\ ~l_covered
    /\ Held(l_bals, l_transfer.from) = 0

\* C6: from an empty dict at one supply_index, while every sender holds what
\* it burns or sends, the balances sum to the minted minus the burned amounts
C6_SupplyConserved ==
    (l_empty /\ l_covered) => SumBals(l_bals) = l_minted - l_burned

=============================================================================
